---- MODULE Spec2Model ----
(***************************************************************************)
(* input_fsm: one FSMEntity (custom_components/input_fsm/fsm_entity.py)    *)
(* together with the asyncio event loop that runs its coroutines and the   *)
(* delayed-call scheduler (async_call_later) that fires its timeouts.      *)
(*                                                                         *)
(* Every coroutine that wants the entity's asyncio.Lock is a task in       *)
(* `queue`; asyncio.Lock wakes its waiters first-in first-out, so the      *)
(* head of the queue is the next task to enter its `async with` block.     *)
(* The only `await` inside a locked block that reaches code outside the    *)
(* entity is hass.services.async_call in _run_actions: a trigger that      *)
(* dispatches a well-formed action keeps the lock in `frame` while it is   *)
(* suspended there.                                                        *)
(***************************************************************************)
EXTENDS Naturals, Sequences, FiniteSets

VARIABLES
    phase,              \* "constructed" | "live" | "removed"
    state,              \* self._state
    initial,            \* self._initial
    state_definitions,  \* self._state_definitions (names, in declaration order)
    transitions,        \* self._transitions
    recent,             \* self._recent
    timeout_unsub,      \* self._timeout_unsub: handle id, 0 = None
    timers,             \* async_call_later: the delayed calls not yet fired or cancelled
    queue,              \* tasks created and not yet inside the lock, oldest first
    frame,              \* locals of the async_trigger suspended inside the lock
    events,             \* hass.bus: events fired, oldest first
    ret,                \* what the last finished service coroutine returned
    published,          \* what async_write_ha_state last wrote
    calls               \* service calls issued so far

vars == <<phase, state, initial, state_definitions, transitions, recent,
          timeout_unsub, timers, queue, frame, events, ret, published, calls>>

----------------------------------------------------------------------------
(* Bounds of the model. *)

MaxCalls == 3
PriorResets == 9

----------------------------------------------------------------------------
(* const.py *)

WILDCARD == "*"
EVENT_TRANSITION_STARTED == "input_fsm.transition_started"
EVENT_TRANSITION_SUCCEEDED == "input_fsm.transition_succeeded"
EVENT_TRANSITION_FAILED == "input_fsm.transition_failed"

HistoryWindow == 10

----------------------------------------------------------------------------
(* Configurations (what CONFIG_SCHEMA lets through). *)

NoGuard == "<none>"
NoTimeout == [has |-> FALSE, seconds |-> 0, dest |-> ""]
Timeout(s, d) == [has |-> TRUE, seconds |-> s, dest |-> d]

Tr(trg, src, dst, g, to, acts) ==
    [trigger |-> trg, source |-> src, dest |-> dst, guard |-> g,
     timeout |-> to, actions |-> acts]

TransitionsA ==
    << Tr("start", "idle", "running", NoGuard, NoTimeout, <<"light.turn_on", "bogus">>),
       Tr("go", "running", "done", NoGuard, Timeout(5, "idle"), <<>>),
       Tr("go", WILDCARD, "idle", "{{ g }}", NoTimeout, <<>>),
       Tr("stop", WILDCARD, "idle", NoGuard, Timeout(0, "running"), <<>>),
       Tr("stop", "running", "done", NoGuard, NoTimeout, <<>>) >>

TransitionsB ==
    << Tr("go", WILDCARD, "running", NoGuard, Timeout(5, "idle"), <<"notify.send">>),
       Tr("go", "idle", "idle", NoGuard, NoTimeout, <<>>),
       Tr("start", "idle", "done", NoGuard, Timeout(5, "idle"), <<>>),
       Tr("stop", "running", "idle", NoGuard, Timeout(5, "done"), <<>>) >>

ConfigA ==
    [has |-> {"initial", "states", "transitions"}, initial |-> "idle",
     states |-> <<"idle", "running", "done">>, transitions |-> TransitionsA]

ConfigB ==
    [has |-> {"initial", "states", "transitions"}, initial |-> "idle",
     states |-> <<"idle", "running">>, transitions |-> TransitionsB]

ConfigStatesOnly ==
    [has |-> {"states"}, initial |-> "",
     states |-> <<"running", "done">>, transitions |-> <<>>]

TransitionsC ==
    << Tr("go", "running", "done", NoGuard, NoTimeout, <<>>) >>

ConfigC ==
    [has |-> {"initial", "states", "transitions"}, initial |-> "running",
     states |-> <<"running", "done">>, transitions |-> TransitionsC]

ConfigNames == {"A", "B", "C", "states_only"}

ConfigNamed(k) ==
    CASE k = "A" -> ConfigA
      [] k = "B" -> ConfigB
      [] k = "C" -> ConfigC
      [] OTHER -> ConfigStatesOnly

InitialConfigs == {ConfigA, ConfigB}

TriggerNames == {"start", "go", "stop"}
StateArgs == {"idle", "done", "ghost"}
LastStates == {"", "running", "ghost"}
Rendered == {" True ", "off", "raise"}
DispatchOutcomes == {"ok", "error"}

----------------------------------------------------------------------------
(* Helpers over the entity's fields. *)

StateLookup(defs) == {defs[i] : i \in 1..Len(defs)}

Get(cfg, key, default) == IF key \in cfg.has THEN cfg[key] ELSE default

LastN(s, n) == IF Len(s) <= n THEN s ELSE SubSeq(s, Len(s) - n + 1, Len(s))

Snapshot(st, rec) == [state |-> st, recent_transitions |-> LastN(rec, HistoryWindow)]

NoFrame ==
    [pc |-> "none", transition_id |-> 0, trigger |-> "", matching |-> 0,
     prev |-> "", dest |-> "", actions |-> <<>>, i |-> 0, results |-> <<>>]

NoRet == [op |-> "", arg |-> "", val |-> "None", n |-> 0]

Return(op, arg, val, n) == [op |-> op, arg |-> arg, val |-> val, n |-> n]

(* A task: the coroutine to run, its argument and the number that tells it *)
(* apart (the call's number; for a timeout task, the handle it came from). *)
Task(op, arg, n) == [op |-> op, arg |-> arg, n |-> n]

Unbound == "<unbound>"

Event(kind, tid, trg, from, to, reason, guard_value, actions_status) ==
    [kind |-> kind, transition_id |-> tid, trigger |-> trg, from |-> from,
     to |-> to, reason |-> reason, guard_value |-> guard_value,
     actions_status |-> actions_status]

HistoryEntry(tid, trg, from, to) ==
    [transition_id |-> tid, trigger |-> trg, from |-> from, to |-> to]

----------------------------------------------------------------------------
(* async_trigger, lines 106-111: the first transition, in declaration      *)
(* order, whose trigger matches and whose source is the state or "*".      *)
(* 0 stands for `matching = None`.                                         *)

RECURSIVE ScanTransitions(_, _, _, _)
ScanTransitions(ts, trg, cur, i) ==
    IF i > Len(ts) THEN 0
    ELSE IF ts[i].trigger = trg /\ (ts[i].source = cur \/ ts[i].source = WILDCARD)
         THEN i
         ELSE ScanTransitions(ts, trg, cur, i + 1)

(* Mutant: a transition with the exact source is preferred to a wildcard *)
(* declared before it.                                                   *)
RECURSIVE ScanExact(_, _, _, _)
ScanExact(ts, trg, cur, i) ==
    IF i > Len(ts) THEN 0
    ELSE IF ts[i].trigger = trg /\ ts[i].source = cur
         THEN i
         ELSE ScanExact(ts, trg, cur, i + 1)

FindTransition_exact_first(ts, trg, cur) ==
    IF ScanExact(ts, trg, cur, 1) # 0
    THEN ScanExact(ts, trg, cur, 1)
    ELSE ScanTransitions(ts, trg, cur, 1)

FindTransition(ts, trg, cur) == ScanTransitions(ts, trg, cur, 1)

(* extra_state_attributes, lines 61-68: sorted({t["trigger"] for t in       *)
(* transitions if t["source"] is the state or "*"}).  Python orders str by  *)
(* code point, character by character, a proper prefix first.               *)
CodePoints(name) ==
    CASE name = "go"    -> <<103, 111>>
      [] name = "start" -> <<115, 116, 97, 114, 116>>
      [] name = "stop"  -> <<115, 116, 111, 112>>
      [] OTHER          -> <<>>

RECURSIVE SeqLess(_, _)
SeqLess(a, b) ==
    IF b = <<>> THEN FALSE
    ELSE IF a = <<>> THEN TRUE
    ELSE IF Head(a) # Head(b) THEN Head(a) < Head(b)
    ELSE SeqLess(Tail(a), Tail(b))

StrLess(x, y) == SeqLess(CodePoints(x), CodePoints(y))

RECURSIVE sorted(_)
sorted(S) ==
    IF S = {} THEN <<>>
    ELSE LET m == CHOOSE x \in S : \A y \in S \ {x} : StrLess(x, y)
         IN  <<m>> \o sorted(S \ {m})

(* Mutant: only transitions whose source is the state itself are listed. *)
available_triggers_exact_source(ts, cur) ==
    sorted({ts[i].trigger : i \in {j \in 1..Len(ts) : ts[j].source = cur}})

available_triggers(ts, cur) ==
    sorted({ts[i].trigger :
              i \in {j \in 1..Len(ts) : ts[j].source = cur \/ ts[j].source = WILDCARD}})

(* _eval_guard: str(rendered).strip().lower() in ("1", "true", "yes", "on"); *)
(* an exception of the template engine gives False.                         *)
StripLower(rendered) ==
    CASE rendered = " True " -> "true"
      [] OTHER -> rendered

eval_guard(rendered) ==
    IF rendered = "raise" THEN FALSE
    ELSE StripLower(rendered) \in {"1", "true", "yes", "on"}

PyStr(b) == IF b THEN "True" ELSE "False"

(* _cancel_timeout: calling the handle takes the delayed call out of the   *)
(* scheduler; it does nothing when that call has already fired.            *)
cancel_timeout(tm, unsub) == IF unsub # 0 THEN {t \in tm : t.id # unsub} ELSE tm

(* _schedule_timeout: async_call_later registers a new delayed call.  `at` *)
(* is the number of service calls issued by then: it orders the delayed    *)
(* call against the tasks of the loop.                                     *)
schedule_timeout(tm, id, dest, at) == tm \cup {[id |-> id, dest |-> dest, at |-> at]}

(* async_trigger, lines 156-161: the timers after the commit of transition t. *)
ShouldArm(t, defs) ==
    /\ t.timeout.has
    /\ t.timeout.seconds > 0
    /\ t.timeout.dest \in StateLookup(defs)

RearmedTimers(tm, unsub, t, defs, id, at) ==
    IF ShouldArm(t, defs)
    THEN schedule_timeout(cancel_timeout(tm, unsub), id, t.timeout.dest, at)
    ELSE cancel_timeout(tm, unsub)

RearmedHandle(t, defs, id) == IF ShouldArm(t, defs) THEN id ELSE 0

(* _run_actions up to its next await: a service without a "." is recorded  *)
(* as bad_service and the loop goes on; it stops before the first          *)
(* well-formed service, whose dispatch is awaited.                         *)
WellFormed(svc) == svc \in {"light.turn_on", "notify.send"}

ActionResult(svc, ok, err) == [service |-> svc, ok |-> ok, error |-> err]

RECURSIVE RunActionsUntilAwait(_, _, _)
RunActionsUntilAwait(actions, i, results) ==
    IF i > Len(actions) THEN [i |-> i, results |-> results]
    ELSE IF ~WellFormed(actions[i])
         THEN RunActionsUntilAwait(actions, i + 1,
                  Append(results, ActionResult(actions[i], FALSE, "bad_service")))
         ELSE [i |-> i, results |-> results]

----------------------------------------------------------------------------
(* FSMEntity.__init__ *)

Init ==
    \E c \in InitialConfigs :
        /\ phase = "constructed"
        /\ state = c.initial
        /\ initial = c.initial
        /\ state_definitions = c.states
        /\ transitions = c.transitions
        /\ recent = <<>>
        /\ timeout_unsub = 0
        /\ timers = {}
        /\ queue = <<>>
        /\ frame = NoFrame
        /\ events = <<>>
        /\ ret = NoRet
        /\ published = Snapshot("", <<>>)
        /\ calls = 0

(* async_added_to_hass: restore the last known state if it is declared. *)
async_added_to_hass(last) ==
    /\ phase = "constructed"
    /\ phase' = "live"
    /\ state' = IF last # "" /\ last \in StateLookup(state_definitions) THEN last ELSE state
    /\ published' = Snapshot(state', recent)
    /\ UNCHANGED <<initial, state_definitions, transitions, recent, timeout_unsub,
                   timers, queue, frame, events, ret, calls>>

----------------------------------------------------------------------------
(* The service handlers of __init__.py: each creates a task that runs the  *)
(* entity's coroutine.                                                     *)

Enqueue(op, arg) ==
    /\ phase = "live"
    /\ calls < MaxCalls
    /\ calls' = calls + 1
    /\ queue' = Append(queue, Task(op, arg, calls + 1))
    /\ UNCHANGED <<phase, state, initial, state_definitions, transitions, recent,
                   timeout_unsub, timers, frame, events, ret, published>>

svc_trigger(trg) == Enqueue("trigger", trg)

svc_set_state(st) == Enqueue("set_state", st)

(* async_reset reads self._initial before async_set_state waits for the    *)
(* lock: a reset that finds the lock taken has read it already.            *)
svc_reset ==
    \E arg \in (IF frame # NoFrame THEN {initial, Unbound} ELSE {Unbound}) :
        Enqueue("reset", arg)

(* svc_reload, the update branch: apply_config with the object's new record. *)
svc_reload_update(k) == Enqueue("apply_config", k)

(* svc_reload, the remove branch: async_remove is the framework's; the     *)
(* entity overrides no removal hook, and it leaves both registries.        *)
svc_reload_remove ==
    /\ phase = "live"
    /\ calls < MaxCalls
    /\ calls' = calls + 1
    /\ phase' = "removed"
    /\ UNCHANGED <<state, initial, state_definitions, transitions, recent,
                   timeout_unsub, timers, queue, frame, events, ret, published>>

(* async_call_later's delayed call comes due: _cb creates the task that    *)
(* runs _timeout_transition(dest).  The handle stays in _timeout_unsub.    *)
(* A positive delay outlasts every task that was ready when the timeout    *)
(* was armed, unless a dispatch keeps the lock: the tasks still queued     *)
(* when _cb runs on a free lock were created after the arming.             *)
CanFire(t) ==
    \/ frame # NoFrame
    \/ \A k \in 1..Len(queue) : queue[k].op = "timeout" \/ queue[k].n > t.at

timer_fires(t) ==
    /\ t \in timers
    /\ CanFire(t)
    /\ timers' = timers \ {t}
    /\ queue' = Append(queue, Task("timeout", t.dest, t.id))
    /\ UNCHANGED <<phase, state, initial, state_definitions, transitions, recent,
                   timeout_unsub, frame, events, ret, published, calls>>

----------------------------------------------------------------------------
(* async_trigger.  The head task enters the lock and runs to the first     *)
(* await of a dispatch, or to its return.                                  *)

(* Mutant: the coroutine does not wait for the lock. *)
HeadIs_unlocked(op) == queue # <<>> /\ Head(queue).op = op

HeadIs(op) == frame = NoFrame /\ queue # <<>> /\ Head(queue).op = op

(* lines 165-175: history entry, transition_succeeded, return True *)
trigger_finish(f, results, evs) ==
    /\ recent' = Append(recent, HistoryEntry(f.transition_id, f.trigger, f.prev, f.dest))
    /\ events' = Append(evs, Event(EVENT_TRANSITION_SUCCEEDED, f.transition_id,
                                   f.trigger, f.prev, f.dest, "", "", results))
    /\ ret' = Return("trigger", f.trigger, "True", f.transition_id)
    /\ frame' = NoFrame

(* Mutant: the first failed action ends the loop. *)
trigger_run_actions_aborts(f, i, results, evs) ==
    LET r == RunActionsUntilAwait(f.actions, i, results) IN
    IF results # <<>> /\ ~results[Len(results)].ok
    THEN trigger_finish(f, results, evs)
    ELSE IF r.i > Len(f.actions)
    THEN trigger_finish(f, r.results, evs)
    ELSE /\ frame' = [f EXCEPT !.pc = "dispatch", !.i = r.i, !.results = r.results]
         /\ events' = evs
         /\ UNCHANGED <<recent, ret>>

(* line 163: _run_actions from action i on *)
trigger_run_actions(f, i, results, evs) ==
    LET r == RunActionsUntilAwait(f.actions, i, results) IN
    IF r.i > Len(f.actions)
    THEN trigger_finish(f, r.results, evs)
    ELSE /\ frame' = [f EXCEPT !.pc = "dispatch", !.i = r.i, !.results = r.results]
         /\ events' = evs
         /\ UNCHANGED <<recent, ret>>

(* lines 113-122 *)
trigger_no_match(task) ==
    /\ events' = Append(events, Event(EVENT_TRANSITION_FAILED, task.n, task.arg,
                                      state, "", "no_matching_transition", "", <<>>))
    /\ ret' = Return("trigger", task.arg, "False", task.n)
    /\ UNCHANGED <<state, recent, timeout_unsub, timers, frame, published>>

(* Mutant: the pending timeout is cancelled before the guard is looked at. *)
trigger_guard_false_cancels(task, guard_value) ==
    /\ events' = Append(events, Event(EVENT_TRANSITION_FAILED, task.n, task.arg,
                                      state, "", "guard_false", PyStr(guard_value), <<>>))
    /\ ret' = Return("trigger", task.arg, "False", task.n)
    /\ timers' = cancel_timeout(timers, timeout_unsub)
    /\ timeout_unsub' = 0
    /\ UNCHANGED <<state, recent, frame, published>>

(* lines 128-138 *)
trigger_guard_false(task, guard_value) ==
    /\ events' = Append(events, Event(EVENT_TRANSITION_FAILED, task.n, task.arg,
                                      state, "", "guard_false", PyStr(guard_value), <<>>))
    /\ ret' = Return("trigger", task.arg, "False", task.n)
    /\ UNCHANGED <<state, recent, timeout_unsub, timers, frame, published>>

(* Mutant: transition_started is emitted after the state is written. *)
trigger_commit_started_late(task, matching, guard_value) ==
    LET t == transitions[matching]
        f == [pc |-> "commit", transition_id |-> task.n, trigger |-> task.arg,
              matching |-> matching, prev |-> state, dest |-> t.dest,
              actions |-> t.actions, i |-> 1, results |-> <<>>]
        started == Event(EVENT_TRANSITION_STARTED, task.n, task.arg, t.dest, t.dest, "",
                         IF t.guard # NoGuard THEN PyStr(guard_value) ELSE "", <<>>)
    IN  /\ state' = t.dest
        /\ published' = Snapshot(t.dest, recent)
        /\ timers' = RearmedTimers(timers, timeout_unsub, t, state_definitions, task.n, calls)
        /\ timeout_unsub' = RearmedHandle(t, state_definitions, task.n)
        /\ trigger_run_actions(f, 1, <<>>, Append(events, started))

(* lines 140-163 *)
trigger_commit(task, matching, guard_value) ==
    LET t == transitions[matching]
        f == [pc |-> "commit", transition_id |-> task.n, trigger |-> task.arg,
              matching |-> matching, prev |-> state, dest |-> t.dest,
              actions |-> t.actions, i |-> 1, results |-> <<>>]
        started == Event(EVENT_TRANSITION_STARTED, task.n, task.arg, state, t.dest, "",
                         IF t.guard # NoGuard THEN PyStr(guard_value) ELSE "", <<>>)
    IN  /\ state' = t.dest
        /\ published' = Snapshot(t.dest, recent)
        /\ timers' = RearmedTimers(timers, timeout_unsub, t, state_definitions, task.n, calls)
        /\ timeout_unsub' = RearmedHandle(t, state_definitions, task.n)
        /\ trigger_run_actions(f, 1, <<>>, Append(events, started))

async_trigger ==
    /\ HeadIs("trigger")
    /\ queue' = Tail(queue)
    /\ LET task == Head(queue)
           matching == FindTransition(transitions, task.arg, state)
       IN  IF matching = 0
           THEN trigger_no_match(task)
           ELSE IF transitions[matching].guard # NoGuard
                THEN \E rendered \in Rendered :
                        IF eval_guard(rendered)
                        THEN trigger_commit(task, matching, TRUE)
                        ELSE trigger_guard_false(task, FALSE)
                ELSE trigger_commit(task, matching, FALSE)
    /\ UNCHANGED <<phase, initial, state_definitions, transitions, calls>>

(* _run_actions, lines 215-220: the awaited dispatch returns or raises,    *)
(* and the trigger runs on to its next await or to its return.             *)
dispatch_returns ==
    /\ frame.pc = "dispatch"
    /\ \E outcome \in DispatchOutcomes :
          LET svc == frame.actions[frame.i]
              res == IF outcome = "ok" THEN ActionResult(svc, TRUE, "")
                                       ELSE ActionResult(svc, FALSE, "dispatch_error")
          IN  trigger_run_actions(frame, frame.i + 1, Append(frame.results, res), events)
    /\ UNCHANGED <<phase, state, initial, state_definitions, transitions,
                   timeout_unsub, timers, queue, published, calls>>

----------------------------------------------------------------------------
(* async_set_state; async_reset is async_set_state(self._initial). *)

(* Mutant: the pending timeout is cancelled before the name is validated. *)
set_state_cancels_first(task, st) ==
    /\ timers' = cancel_timeout(timers, timeout_unsub)
    /\ timeout_unsub' = 0
    /\ IF st \notin StateLookup(state_definitions)
       THEN /\ ret' = Return(task.op, st, "False", task.n)
            /\ UNCHANGED <<state, recent, published>>
       ELSE /\ state' = st
            /\ published' = Snapshot(st, recent)
            /\ recent' = Append(recent, HistoryEntry(0, "set_state", state, st))
            /\ ret' = Return(task.op, st, "True", task.n)

set_state(task, st) ==
    IF st \notin StateLookup(state_definitions)
    THEN /\ ret' = Return(task.op, st, "False", task.n)
         /\ UNCHANGED <<state, recent, timeout_unsub, timers, published>>
    ELSE /\ state' = st
         /\ published' = Snapshot(st, recent)
         /\ timers' = cancel_timeout(timers, timeout_unsub)
         /\ timeout_unsub' = 0
         /\ recent' = Append(recent, HistoryEntry(0, "set_state", state, st))
         /\ ret' = Return(task.op, st, "True", task.n)

async_set_state ==
    /\ HeadIs("set_state")
    /\ queue' = Tail(queue)
    /\ set_state(Head(queue), Head(queue).arg)
    /\ UNCHANGED <<phase, initial, state_definitions, transitions, frame, events, calls>>

(* Mutant: a reset of an instance already in its initial state is skipped. *)
async_reset_skips_same ==
    /\ HeadIs("reset")
    /\ queue' = Tail(queue)
    /\ LET st == IF Head(queue).arg = Unbound THEN initial ELSE Head(queue).arg IN
       IF st = state
       THEN /\ ret' = Return("reset", st, "True", Head(queue).n)
            /\ UNCHANGED <<state, recent, timeout_unsub, timers, published>>
       ELSE set_state(Head(queue), st)
    /\ UNCHANGED <<phase, initial, state_definitions, transitions, frame, events, calls>>

async_reset ==
    /\ HeadIs("reset")
    /\ queue' = Tail(queue)
    /\ set_state(Head(queue), IF Head(queue).arg = Unbound THEN initial ELSE Head(queue).arg)
    /\ UNCHANGED <<phase, initial, state_definitions, transitions, frame, events, calls>>

----------------------------------------------------------------------------
(* async_apply_config *)

async_apply_config ==
    /\ HeadIs("apply_config")
    /\ queue' = Tail(queue)
    /\ LET cfg == ConfigNamed(Head(queue).arg)
           old_state == state
       IN  /\ timers' = cancel_timeout(timers, timeout_unsub)
           /\ timeout_unsub' = 0
           /\ initial' = Get(cfg, "initial", initial)
           /\ state_definitions' = Get(cfg, "states", state_definitions)
           /\ transitions' = Get(cfg, "transitions", transitions)
           /\ state' = IF old_state \notin StateLookup(state_definitions')
                       THEN initial' ELSE state
           /\ published' = Snapshot(state', recent)
           /\ ret' = Return("apply_config", Head(queue).arg, "None", Head(queue).n)
    /\ UNCHANGED <<phase, recent, frame, events, calls>>

----------------------------------------------------------------------------
(* _timeout_transition *)

(* Mutant: _timeout_transition does not take the lock. *)
timeout_transition_unlocked ==
    /\ queue # <<>> /\ Head(queue).op = "timeout"
    /\ queue' = Tail(queue)
    /\ LET dest == Head(queue).arg
           prev == state
       IN  /\ state' = dest
           /\ published' = Snapshot(dest, recent)
           /\ recent' = Append(recent, HistoryEntry(0, "timeout", prev, dest))
           /\ timeout_unsub' = 0
    /\ UNCHANGED <<phase, initial, state_definitions, transitions, timers, frame,
                   events, ret, calls>>

timeout_transition ==
    /\ HeadIs("timeout")
    /\ queue' = Tail(queue)
    /\ LET dest == Head(queue).arg
           prev == state
       IN  /\ state' = dest
           /\ published' = Snapshot(dest, recent)
           /\ recent' = Append(recent, HistoryEntry(0, "timeout", prev, dest))
           /\ timeout_unsub' = 0
    /\ UNCHANGED <<phase, initial, state_definitions, transitions, timers, frame,
                   events, ret, calls>>

----------------------------------------------------------------------------

Next ==
    \/ \E last \in LastStates : async_added_to_hass(last)
    \/ \E trg \in TriggerNames : svc_trigger(trg)
    \/ \E st \in StateArgs : svc_set_state(st)
    \/ svc_reset
    \/ \E k \in ConfigNames : svc_reload_update(k)
    \/ svc_reload_remove
    \/ \E t \in timers : timer_fires(t)
    \/ async_trigger
    \/ dispatch_returns
    \/ async_set_state
    \/ async_reset
    \/ async_apply_config
    \/ timeout_transition

Spec == Init /\ [][Next]_vars

(* The entity after PriorResets resets in a row: a state of a long-running *)
(* instance, from which a few more calls fill the history past its window. *)
InitLongRun ==
    \E c \in InitialConfigs :
        /\ phase = "live"
        /\ state = c.initial
        /\ initial = c.initial
        /\ state_definitions = c.states
        /\ transitions = c.transitions
        /\ recent = [i \in 1..PriorResets |->
                        HistoryEntry(0, "set_state", c.initial, c.initial)]
        /\ timeout_unsub = 0
        /\ timers = {}
        /\ queue = <<>>
        /\ frame = NoFrame
        /\ events = <<>>
        /\ ret = NoRet
        /\ published = Snapshot(c.initial, SubSeq(recent, 1, PriorResets - 1))
        /\ calls = 0

NextLive ==
    \/ \E trg \in TriggerNames : svc_trigger(trg)
    \/ \E st \in StateArgs : svc_set_state(st)
    \/ svc_reset
    \/ \E k \in ConfigNames : svc_reload_update(k)
    \/ svc_reload_remove
    \/ \E t \in timers : timer_fires(t)
    \/ async_trigger
    \/ dispatch_returns
    \/ async_set_state
    \/ async_reset
    \/ async_apply_config
    \/ timeout_transition

SpecLongRun == InitLongRun /\ [][NextLive]_vars

TypeOK ==
    /\ phase \in {"constructed", "live", "removed"}
    /\ timeout_unsub \in 0..MaxCalls
    /\ calls \in 0..MaxCalls

----------------------------------------------------------------------------
(* Vocabulary of the properties. *)

(* The transitions that match (name, state), as a set of indices. *)
Matches(ts, trg, cur) ==
    {i \in 1..Len(ts) : ts[i].trigger = trg /\ (ts[i].source = cur \/ ts[i].source = WILDCARD)}

(* The smallest matching index; 0 when nothing matches. *)
FirstMatch(ts, trg, cur) ==
    IF Matches(ts, trg, cur) = {} THEN 0
    ELSE CHOOSE i \in Matches(ts, trg, cur) : \A j \in Matches(ts, trg, cur) : i <= j

(* A step in which a coroutine returns: every task has its own number. *)
Returns(op) == ret' # ret /\ ret'.op = op

(* self._state when the coroutine that holds (or is taking) the lock took it: *)
(* a suspended trigger read it into `prev` in the step that took the lock.    *)
StateAtLock == IF frame = NoFrame THEN state ELSE frame.prev

LastOf(s) == s[Len(s)]

Armed == Cardinality(timers)

----------------------------------------------------------------------------
(* C1: when trigger(name) returns False, current_state is what it was when *)
(* the call took the lock; when it returns True, current_state is the dest *)
(* of the first transition matching (name, state at the lock).  Nothing    *)
(* else is returned.                                                       *)
C1_TriggerOutcome ==
    [][ Returns("trigger") =>
          LET m == FirstMatch(transitions, ret'.arg, StateAtLock) IN
          /\ ret'.val \in {"True", "False"}
          /\ ret'.val = "False" => state' = StateAtLock
          /\ ret'.val = "True" => m # 0 /\ state' = transitions[m].dest ]_vars

(* A trigger that was suspended in a dispatch, with other tasks waiting    *)
(* for the lock meanwhile, has returned True.                              *)
C1_Witness ==
    /\ ret.op = "trigger" /\ ret.val = "True" /\ ret.arg = "start"
    /\ state = "running"
    /\ queue # <<>>
    /\ LastOf(events).actions_status # <<>>

(* C2 (as claimed): a _timeout_transition whose handle is no longer the    *)
(* pending one (cancelled, or superseded by a later arming) changes        *)
(* neither current_state nor the history nor the pending handle.           *)
C2_StaleTimeoutIsNoOp ==
    [][ (timeout_transition /\ Head(queue).n # timeout_unsub)
          => UNCHANGED <<state, recent, timeout_unsub>> ]_vars

(* C3 (as claimed): at most one delayed call is armed at any time. *)
C3_AtMostOneArmed == Armed <= 1

(* C4: the transition a trigger takes is the one with the smallest index   *)
(* among those whose trigger is the name and whose source is the current   *)
(* state or the wildcard, whichever of the two kinds is declared first.    *)
C4_FirstMatchWins ==
    [][ async_trigger =>
          LET name == Head(queue).arg
              m == FirstMatch(transitions, name, state)
              e == events'[Len(events) + 1]
          IN  /\ Len(events') > Len(events)
              /\ (m = 0) <=> (e.kind = EVENT_TRANSITION_FAILED
                               /\ e.reason = "no_matching_transition")
              /\ m # 0 =>
                    /\ transitions[m].trigger = name
                    /\ transitions[m].source \in {state, WILDCARD}
                    /\ (e.guard_value # "") <=> (transitions[m].guard # NoGuard)
                    /\ e.kind = EVENT_TRANSITION_STARTED =>
                          e.to = transitions[m].dest /\ state' = transitions[m].dest ]_vars

(* Both orders have happened: from "running", "stop" took the wildcard     *)
(* declared before the specific transition, and "go" took the specific     *)
(* transition declared before the wildcard.                                *)
C4_Witness ==
    /\ transitions = TransitionsA
    /\ \E i, j \in 1..Len(recent) :
          /\ recent[i].trigger = "stop" /\ recent[i].from = "running" /\ recent[i].to = "idle"
          /\ recent[j].trigger = "go" /\ recent[j].from = "running" /\ recent[j].to = "done"

(* C5: a trigger that finds no transition, or whose guard is false or      *)
(* raises, returns False, leaves current_state, the history and the        *)
(* pending timeout as they were, and emits one transition_failed with the  *)
(* matching reason and nothing else.                                       *)
C5_FailedTriggerIsPure ==
    [][ (Returns("trigger") /\ ret'.val = "False") =>
          LET m == FirstMatch(transitions, ret'.arg, state)
              e == events'[Len(events')]
          IN  /\ UNCHANGED <<state, recent, timeout_unsub, timers, published>>
              /\ frame' = NoFrame
              /\ Len(events') = Len(events) + 1
              /\ SubSeq(events', 1, Len(events)) = events
              /\ e.kind = EVENT_TRANSITION_FAILED
              /\ e.reason = IF m = 0 THEN "no_matching_transition" ELSE "guard_false"
              /\ m # 0 => transitions[m].guard # NoGuard ]_vars

(* A guard has failed while a timeout was armed, and the timeout is still  *)
(* armed.                                                                  *)
C5_Witness ==
    /\ ret.op = "trigger" /\ ret.val = "False"
    /\ events # <<>> /\ LastOf(events).reason = "guard_false"
    /\ timeout_unsub # 0
    /\ \E t \in timers : t.id = timeout_unsub

(* The dest a trigger committed, read from its transition_succeeded. *)
CommittedDest(tid) ==
    LET k == CHOOSE k \in 1..Len(events) :
                 events[k].kind = EVENT_TRANSITION_SUCCEEDED /\ events[k].transition_id = tid
    IN  events[k].to

(* C6 (as claimed): a trigger committed a transition and armed its         *)
(* timeout, and no trigger, set_state, reset, apply_config or remove came  *)
(* after it; when the timeout fires, the state becomes the timeout's dest, *)
(* the last history entry is the timeout from the committed dest to it,    *)
(* and the pending handle is cleared.                                      *)
C6_TimeoutAfterCommit ==
    [][ ( /\ timeout_transition
          /\ phase = "live"
          /\ ret.op = "trigger" /\ ret.val = "True" /\ ret.n = Head(queue).n
          /\ \A k \in 1..Len(queue) : queue[k].op = "timeout" )
        => /\ state' = Head(queue).arg
           /\ timeout_unsub' = 0
           /\ LastOf(recent') = HistoryEntry(0, "timeout", CommittedDest(Head(queue).n),
                                              Head(queue).arg) ]_vars

(* C7 (as claimed): the history buffer never holds more than 10 entries. *)
C7_HistoryBounded == Len(recent) <= HistoryWindow

(* C8 (as claimed, for configurations whose initial state and transition   *)
(* dests are all declared): no operation takes current_state from a        *)
(* declared state to an undeclared one.                                    *)
ConfigDeclared(init, defs, ts) ==
    /\ init \in StateLookup(defs)
    /\ \A i \in 1..Len(ts) : ts[i].dest \in StateLookup(defs)

C8_StateDeclared ==
    [][ ( /\ ConfigDeclared(initial, state_definitions, transitions)
          /\ ConfigDeclared(initial', state_definitions', transitions')
          /\ state \in StateLookup(state_definitions) )
        => state' \in StateLookup(state_definitions') ]_vars

(* C9: a successful trigger emits one transition_started carrying the      *)
(* source state, then (before any dispatch) has set the state and cancelled *)
(* or re-armed the timeout, then dispatches, then appends its history      *)
(* entry and emits one transition_succeeded; no transition_succeeded comes *)
(* without the transition_started of the same transition before it, and no *)
(* transition_failed carries its id.                                       *)
EventsOf(tid, kind) ==
    {k \in 1..Len(events) : events[k].transition_id = tid /\ events[k].kind = kind}

EntriesOf(tid) == {k \in 1..Len(recent) : recent[k].transition_id = tid}

C9_WhileDispatching ==
    frame # NoFrame =>
        /\ LastOf(events).kind = EVENT_TRANSITION_STARTED
        /\ LastOf(events).transition_id = frame.transition_id
        /\ LastOf(events).from = frame.prev
        /\ LastOf(events).to = frame.dest
        /\ state = frame.dest
        /\ published.state = frame.dest
        /\ timeout_unsub \in {0, frame.transition_id}
        /\ EntriesOf(frame.transition_id) = {}
        /\ EventsOf(frame.transition_id, EVENT_TRANSITION_SUCCEEDED) = {}

C9_EventsPaired ==
    \A k \in 1..Len(events) :
        events[k].kind = EVENT_TRANSITION_SUCCEEDED =>
            LET tid == events[k].transition_id IN
            /\ Cardinality(EventsOf(tid, EVENT_TRANSITION_STARTED)) = 1
            /\ Cardinality(EventsOf(tid, EVENT_TRANSITION_SUCCEEDED)) = 1
            /\ EventsOf(tid, EVENT_TRANSITION_FAILED) = {}
            /\ \A j \in EventsOf(tid, EVENT_TRANSITION_STARTED) :
                  /\ j < k
                  /\ events[j].trigger = events[k].trigger
                  /\ events[j].from = events[k].from
                  /\ events[j].to = events[k].to
            /\ Cardinality(EntriesOf(tid)) = 1

C9_CommitStep ==
    (async_trigger /\ ~(Returns("trigger") /\ ret'.val = "False")) =>
        LET e == events'[Len(events) + 1] IN
        /\ e.kind = EVENT_TRANSITION_STARTED
        /\ e.transition_id = Head(queue).n
        /\ e.from = state
        /\ e.to = state'
        /\ timeout_unsub' \in {0, Head(queue).n}
        /\ timeout_unsub # 0 => \A t \in timers' : t.id # timeout_unsub

C9_ReturnStep ==
    (Returns("trigger") /\ ret'.val = "True") =>
        LET e == events'[Len(events')]
            f == IF frame = NoFrame THEN state ELSE frame.prev
        IN  /\ e.kind = EVENT_TRANSITION_SUCCEEDED
            /\ e.transition_id = ret'.n
            /\ e.from = f /\ e.to = state'
            /\ recent' = Append(recent, HistoryEntry(ret'.n, ret'.arg, f, state'))
            /\ Len(e.actions_status) =
                   Len(transitions[FirstMatch(transitions, ret'.arg, f)].actions)

C9_SuccessOrder ==
    /\ [](C9_WhileDispatching /\ C9_EventsPaired)
    /\ [][C9_CommitStep /\ C9_ReturnStep]_vars

(* A trigger that dispatched an action has returned True after a timeout   *)
(* it armed itself came due during the dispatch.                           *)
C9_Witness ==
    /\ ret.op = "trigger" /\ ret.val = "True"
    /\ LastOf(events).kind = EVENT_TRANSITION_SUCCEEDED
    /\ LastOf(events).actions_status # <<>>
    /\ timeout_unsub = ret.n
    /\ \E k \in 1..Len(queue) : queue[k].op = "timeout" /\ queue[k].n = ret.n

(* C10 (as claimed): once the instance is removed, no timeout callback     *)
(* changes its current_state or its history.                               *)
C10_RemovedIsQuiet ==
    [][ (phase = "removed" /\ timeout_transition) => UNCHANGED <<state, recent>> ]_vars

----------------------------------------------------------------------------
----------------------------------------------------------------------------
(* C12: set_state(s) with s not a declared state returns false and changes *)
(* nothing: current_state, the history, the configuration and the pending  *)
(* timeout (an armed one stays armed) are as before, and nothing is        *)
(* published or emitted.                                                   *)
C12_InvalidSetStateIsPure ==
    [][ ( /\ async_set_state
          /\ Head(queue).arg \notin StateLookup(state_definitions) )
        => /\ ret' = Return("set_state", Head(queue).arg, "False", Head(queue).n)
           /\ UNCHANGED <<state, recent, timeout_unsub, timers, published,
                          events, initial, state_definitions, transitions>> ]_vars

(* A rejected set_state has returned while a timeout is armed. *)
C12_Witness ==
    /\ ret.op = "set_state" /\ ret.val = "False"
    /\ ret.arg \notin StateLookup(state_definitions)
    /\ timeout_unsub # 0
    /\ \E t \in timers : t.id = timeout_unsub

----------------------------------------------------------------------------
(* C13: set_state(s) with s a declared state returns true; at its return   *)
(* current_state is s, no timeout is armed for the instance, and exactly   *)
(* one history entry {set_state, previous state, s} has been appended; no  *)
(* transition, guard or action is involved (no event, no dispatch).        *)
C13_ValidSetState ==
    [][ ( /\ async_set_state
          /\ Head(queue).arg \in StateLookup(state_definitions) )
        => /\ ret' = Return("set_state", Head(queue).arg, "True", Head(queue).n)
           /\ state' = Head(queue).arg
           /\ recent' = Append(recent, HistoryEntry(0, "set_state", state, Head(queue).arg))
           /\ timeout_unsub' = 0
           /\ timers' = {}
           /\ UNCHANGED <<events, frame, transitions, state_definitions, initial>> ]_vars

----------------------------------------------------------------------------
(* C14: apply_config(new_config) keeps current_state when it is still a    *)
(* declared state and otherwise sets it to the (possibly updated)          *)
(* initial_state; a field absent from new_config keeps its prior value;    *)
(* the call leaves no timeout armed, appends no history entry, emits no    *)
(* event and runs no action.                                               *)
C14_ApplyConfig ==
    [][ async_apply_config =>
        LET cfg == ConfigNamed(Head(queue).arg) IN
        /\ initial' = IF "initial" \in cfg.has THEN cfg.initial ELSE initial
        /\ state_definitions' = IF "states" \in cfg.has THEN cfg.states
                                                        ELSE state_definitions
        /\ transitions' = IF "transitions" \in cfg.has THEN cfg.transitions
                                                        ELSE transitions
        /\ state' = IF state \in StateLookup(state_definitions') THEN state
                                                                 ELSE initial'
        /\ timeout_unsub' = 0
        /\ timers' = {}
        /\ UNCHANGED <<recent, events, frame>> ]_vars

----------------------------------------------------------------------------
(* C15: available_triggers is the lexicographically sorted list of the     *)
(* distinct trigger names valid from current_state: it is strictly         *)
(* increasing, and a trigger(n) that takes the lock in that state fails    *)
(* with no_matching_transition exactly when n is not in the list.          *)
Listed(ts, cur) ==
    {available_triggers(ts, cur)[k] : k \in 1..Len(available_triggers(ts, cur))}

StrictlySorted(names) ==
    \A i, j \in 1..Len(names) : i < j => StrLess(names[i], names[j])

C15_AvailableTriggers ==
    [][ /\ StrictlySorted(available_triggers(transitions, state))
        /\ StrictlySorted(available_triggers(transitions', state'))
        /\ \A n \in TriggerNames :
              n \in Listed(transitions, state) <=> FirstMatch(transitions, n, state) # 0
        /\ async_trigger =>
              ( Head(queue).arg \in Listed(transitions, state)
                <=> ~( /\ Returns("trigger")
                       /\ ret'.val = "False"
                       /\ LastOf(events').reason = "no_matching_transition" ) ) ]_vars

(* A trigger not in a list of two names has just failed for want of a      *)
(* matching transition, and one of the listed names comes from a wildcard  *)
(* source.                                                                 *)
C15_Witness ==
    /\ ret.op = "trigger" /\ ret.val = "False"
    /\ events # <<>> /\ LastOf(events).reason = "no_matching_transition"
    /\ ret.arg \notin Listed(transitions, state)
    /\ Len(available_triggers(transitions, state)) = 2
    /\ \E i \in 1..Len(transitions) :
          transitions[i].source = WILDCARD /\ transitions[i].source # state

----------------------------------------------------------------------------
(* The fields the lock protects, and the steps that run inside the lock:   *)
(* each locked coroutine takes the lock in the step that starts it, and a  *)
(* trigger suspended in a dispatch keeps it until dispatch_returns ends it. *)
Protected == <<state, recent, transitions, state_definitions, timeout_unsub>>

InsideLock ==
    \/ async_trigger \/ dispatch_returns \/ async_set_state \/ async_reset
    \/ async_apply_config \/ timeout_transition

(* C16 (as claimed): every write to current_state, the history, the        *)
(* transitions, the state definitions and the timeout handle happens       *)
(* while the instance lock is held.                                        *)
C16_EveryWriteLocked ==
    [][ Protected' # Protected => InsideLock ]_vars

(* C16 (amended): once the instance has been added, every write to those   *)
(* fields is made by a step inside the lock, and while a trigger is        *)
(* suspended in a dispatch no other operation enters: the fields change    *)
(* only when that trigger resumes, and the only change is its own history  *)
(* entry.  (The restore in async_added_to_hass writes current_state        *)
(* without the lock, before any operation can reach the instance.)         *)
C16_Serialized ==
    [][ /\ (phase # "constructed" /\ Protected' # Protected) => InsideLock
        /\ phase = "constructed" => queue = <<>> /\ frame = NoFrame /\ timers = {}
        /\ frame # NoFrame =>
              /\ ~(async_trigger \/ async_set_state \/ async_reset
                     \/ async_apply_config \/ timeout_transition)
              /\ UNCHANGED <<state, transitions, state_definitions, initial,
                             timeout_unsub>>
              /\ recent' # recent =>
                    /\ dispatch_returns
                    /\ frame' = NoFrame
                    /\ recent' = Append(recent,
                          HistoryEntry(frame.transition_id, frame.trigger,
                                       frame.prev, frame.dest)) ]_vars

(* A trigger is suspended in a dispatch while a fired timeout and another  *)
(* mutating call wait for the lock.                                        *)
C16_Witness ==
    /\ frame.pc = "dispatch"
    /\ \E k \in 1..Len(queue) : queue[k].op = "timeout"
    /\ \E k \in 1..Len(queue) : queue[k].op \in {"set_state", "reset", "apply_config"}

----------------------------------------------------------------------------
(* C17: a reader of current_state together with the history never sees a   *)
(* partially committed transition: whenever a transition changes the       *)
(* current_state a reader can see (the live attributes, or the snapshot    *)
(* last published), the history entry of that transition is visible with   *)
(* it.  (apply_config and the restore at add change the state without a    *)
(* transition and are left out.)                                           *)
C17_NoPartialCommit ==
    [][ ~(async_apply_config \/ phase = "constructed") =>
          /\ state' # state =>
                /\ Len(recent') = Len(recent) + 1
                /\ LastOf(recent').to = state'
          /\ published'.state # published.state =>
                /\ published'.recent_transitions # <<>>
                /\ LastOf(published'.recent_transitions).from = published.state
                /\ LastOf(published'.recent_transitions).to = published'.state ]_vars

----------------------------------------------------------------------------
(* C18: a trigger that commits cancels whatever timeout was armed, and     *)
(* once it has re-armed, a timeout is armed iff the matched transition     *)
(* declares a timeout with seconds > 0 and a dest that is a declared       *)
(* state: then it is that one timeout and no other, otherwise the instance *)
(* has no armed timeout (the old one is not kept).                         *)
C18_TimeoutAfterTrigger ==
    [][ (async_trigger /\ ~(Returns("trigger") /\ ret'.val = "False")) =>
          LET t == transitions[FirstMatch(transitions, Head(queue).arg, state)] IN
          IF /\ t.timeout.has
             /\ t.timeout.seconds > 0
             /\ t.timeout.dest \in StateLookup(state_definitions)
          THEN /\ timeout_unsub' # 0
               /\ \A x \in timers : x.id # timeout_unsub'
               /\ \E x \in timers' : /\ x.id = timeout_unsub'
                                      /\ x.dest = t.timeout.dest
                                      /\ timers' = {x}
          ELSE timeout_unsub' = 0 /\ timers' = {} ]_vars

----------------------------------------------------------------------------
(* C19: action failures neither abort nor roll back a transition.  A       *)
(* trigger that has committed can only end by returning true; when it      *)
(* does, current_state is the dest, its history entry is appended,         *)
(* transition_succeeded is emitted, and the reported results hold exactly  *)
(* one outcome per declared action, in declaration order, a malformed      *)
(* service being reported as failed with bad_service.                      *)
C19_ActionFailuresIgnored ==
    [][ /\ (frame # NoFrame /\ frame' # frame) =>
              /\ dispatch_returns
              /\ state' = frame.dest
              /\ frame' = NoFrame => (Returns("trigger") /\ ret'.val = "True")
        /\ (Returns("trigger") /\ ret'.val = "True") =>
              LET m    == IF frame # NoFrame THEN frame.matching
                          ELSE FirstMatch(transitions, ret'.arg, state)
                  acts == transitions[m].actions
                  e    == LastOf(events')
                  st   == e.actions_status
              IN  /\ state' = transitions[m].dest
                  /\ Len(recent') = Len(recent) + 1
                  /\ LastOf(recent').transition_id = ret'.n
                  /\ LastOf(recent').to = transitions[m].dest
                  /\ e.kind = EVENT_TRANSITION_SUCCEEDED
                  /\ e.transition_id = ret'.n
                  /\ Len(st) = Len(acts)
                  /\ \A k \in 1..Len(acts) :
                        /\ st[k].service = acts[k]
                        /\ ~WellFormed(acts[k]) =>
                              (~st[k].ok /\ st[k].error = "bad_service")
                        /\ WellFormed(acts[k]) =>
                              (st[k].ok \/ st[k].error = "dispatch_error") ]_vars

(* A trigger has returned true although both of its actions failed, one in *)
(* the dispatcher and one for its malformed service.                       *)
C19_Witness ==
    /\ ret.op = "trigger" /\ ret.val = "True"
    /\ events # <<>>
    /\ LastOf(events).kind = EVENT_TRANSITION_SUCCEEDED
    /\ LastOf(events).transition_id = ret.n
    /\ Len(LastOf(events).actions_status) = 2
    /\ \A k \in 1..2 : ~LastOf(events).actions_status[k].ok
    /\ LastOf(events).actions_status[1].error = "dispatch_error"
    /\ LastOf(events).actions_status[2].error = "bad_service"
    /\ state = LastOf(events).to
    /\ recent # <<>> /\ LastOf(recent).transition_id = ret.n

----------------------------------------------------------------------------
(* C20: a timeout firing never sets current_state to a name that is not a  *)
(* declared state when it fires: whatever trigger, apply_config and        *)
(* timeout steps came before, current_state after _timeout_transition is   *)
(* a key of the state definitions of that moment.                          *)
C20_TimeoutDestDeclared ==
    [][ timeout_transition =>
          /\ state' = Head(queue).arg
          /\ state' \in StateLookup(state_definitions') ]_vars

====
